---- MODULE Spec2Model ----
(***************************************************************************)
(* ExternalNodeBuilder::build (core/bin/external_node/src/node_builder.rs) *)
(* as a state machine: one run of build(components) over a configuration,  *)
(* recorded as the add_layer calls made on the service builder and the     *)
(* layers it holds, the position in the component loop and the way the     *)
(* call ends.                                                              *)
(***************************************************************************)
EXTENDS Naturals, Sequences, FiniteSets, TLC

\* Longest component list the caller passes to build.
MaxLen == 3

\* enum Component (crate::Component, matched exhaustively in build).
Component == {"HttpApi", "WsApi", "Tree", "TreeApi", "TreeFetcher", "Core"}

\* The fields of ExternalNodeConfig that build branches on:
\*   prometheus             config.observability.prometheus() is Some
\*   pruning_enabled        config.optional.pruning_enabled
\*   l2_shared_bridge_addr  config.remote.l2_shared_bridge_addr is Some
ExternalNodeConfig ==
    [prometheus : BOOLEAN, pruning_enabled : BOOLEAN, l2_shared_bridge_addr : BOOLEAN]

\* The ways build ends.
Ok == "Ok"
ErrTree == "Tree must run on the same machine as Core"
ErrTreeApi == "Merkle tree API cannot be started without a tree component"
ErrSecrets == "config::read_consensus_secrets()"
PanicTodo == "panic: not yet implemented"
PanicBridge == "panic: L2 shared bridge address is not set"
ErrBuild == "self.node.build()"
Running == "running"

VARIABLES
    input,       \* the Vec<Component> the caller passed
    config,      \* self.config
    secrets_ok,  \* whether config::read_consensus_secrets() returns Ok
    node_build_ok, \* whether self.node.build() returns Ok
    components,  \* the local `components` vector (sorted in place)
    node,        \* self.node: [calls, layers], the add_layer calls made on
                 \* the service builder and the layers it holds, in order
    pc,          \* position in build
    idx,         \* position of the `for component in &components` loop
    result,      \* how build ended, Running until then
    service,     \* the ZkStackService returned: [built, layers]
    node_build_calls, \* how many times self.node.build() was called
    first        \* what an earlier run of build on this configuration did

vars == <<input, config, secrets_ok, node_build_ok, components, node, pc, idx, result, service,
          node_build_calls, first>>

\* No earlier run.
NoRun == [done |-> FALSE, rerun |-> "none", input |-> <<>>, sorted |-> <<>>,
          result |-> Running, calls |-> <<>>, layers |-> <<>>,
          node_build_calls |-> 0]

\* All component lists of length at most n.
ComponentLists(n) == UNION {[1..k -> Component] : k \in 0..n}

-----------------------------------------------------------------------------
\* components.contains(&c)
contains(v, c) == \E i \in 1..Len(v) : v[i] = c

\* ZkStackServiceBuilder::new(): no call made, no layer held.
NewBuilder == [calls |-> <<>>, layers |-> <<>>]

\* Variant: a layer that is already registered is registered again.
add_layer_again(n, layer) ==
    [calls |-> Append(n.calls, layer), layers |-> Append(n.layers, layer)]

\* ZkStackServiceBuilder::add_layer: the layer joins the end of the sequence of
\* registered layers, unless it is registered already (no layer is registered
\* twice); the call is recorded either way.
add_layer(n, layer) ==
    [calls |-> Append(n.calls, layer),
     layers |-> IF contains(n.layers, layer) THEN n.layers ELSE Append(n.layers, layer)]

\* No Service.
NoService == [built |-> FALSE, layers |-> <<>>]

\* ZkStackServiceBuilder::build, a Result: Ok with the registered layer
\* sequence as the Service, or Err.
service_builder_build(n) ==
    IF node_build_ok
    THEN [ok |-> TRUE, service |-> [built |-> TRUE, layers |-> n.layers]]
    ELSE [ok |-> FALSE, service |-> NoService]

add_sigint_handler_layer(n) == add_layer(n, "SigintHandlerLayer")

add_pools_layer(n) == add_layer(n, "PoolsLayer")

add_postgres_metrics_layer(n) == add_layer(n, "PostgresMetricsLayer")

add_main_node_client_layer(n) == add_layer(n, "MainNodeClientLayer")

add_healthcheck_layer(n) == add_layer(n, "HealthCheckLayer")

\* Variant: the exporter layer is added without looking at the configuration.
add_prometheus_exporter_layer_always(n) == add_layer(n, "PrometheusExporterLayer")

add_prometheus_exporter_layer(n) ==
    IF config.prometheus THEN add_layer(n, "PrometheusExporterLayer") ELSE n

add_query_eth_client_layer(n) == add_layer(n, "QueryEthClientLayer")

\* Variant: the input-feed layer is added ahead of the persistence layer.
add_state_keeper_layer_io_first(n) ==
    add_layer(add_layer(add_layer(add_layer(n,
        "ExternalIOLayer"), "OutputHandlerLayer"),
        "MainBatchExecutorLayer"), "StateKeeperLayer")

\* Defined only when config.remote.l2_shared_bridge_addr is set: the caller
\* takes the `expect` panic otherwise.
add_state_keeper_layer(n) ==
    add_layer(add_layer(add_layer(add_layer(n,
        "OutputHandlerLayer"), "ExternalIOLayer"),
        "MainBatchExecutorLayer"), "StateKeeperLayer")

\* Defined only when read_consensus_secrets() is Ok: the caller returns the
\* error otherwise.
add_consensus_layer(n) == add_layer(n, "ConsensusLayer")

\* Variant: the pruning flag is read the wrong way round.
add_pruning_layer_inverted(n) ==
    IF config.pruning_enabled THEN n ELSE add_layer(n, "PruningLayer")

add_pruning_layer(n) ==
    IF config.pruning_enabled THEN add_layer(n, "PruningLayer") ELSE n

add_l1_batch_commitment_mode_validation_layer(n) ==
    add_layer(n, "L1BatchCommitmentModeValidationLayer")

add_validate_chain_ids_layer(n) == add_layer(n, "ValidateChainIdsLayer")

add_consistency_checker_layer(n) == add_layer(n, "ConsistencyCheckerLayer")

add_commitment_generator_layer(n) == add_layer(n, "CommitmentGeneratorLayer")

add_batch_status_updater_layer(n) == add_layer(n, "BatchStatusUpdaterLayer")

add_tree_data_fetcher_layer(n) == add_layer(n, "TreeDataFetcherLayer")

-----------------------------------------------------------------------------
\* Variant: every component gets the default priority.
sort_key_flat(component) == 0

\* The closure given to sort_unstable_by_key.
sort_key(component) ==
    IF component \in {"HttpApi", "WsApi"} THEN 1 ELSE 0

is_sorted_by_key(v) ==
    \A i, j \in 1..Len(v) : i < j => sort_key(v[i]) <= sort_key(v[j])

\* sort_unstable_by_key insertion-sorts a slice of at most this many elements.
MAX_LEN_ALWAYS_INSERTION_SORT == 20

\* v is in key order; x, put at its end, moves left past every element with a
\* greater key.
RECURSIVE insert_tail(_, _)
insert_tail(v, x) ==
    IF v = <<>> \/ ~(sort_key(x) < sort_key(v[Len(v)]))
    THEN Append(v, x)
    ELSE Append(insert_tail(SubSeq(v, 1, Len(v) - 1), x), v[Len(v)])

\* Insertion sort: each element in turn is inserted into the sorted part
\* before it. Elements with equal keys keep their order.
RECURSIVE insertion_sort_shift_left(_)
insertion_sort_shift_left(v) ==
    IF Len(v) < 2
    THEN v
    ELSE insert_tail(insertion_sort_shift_left(SubSeq(v, 1, Len(v) - 1)), v[Len(v)])

\* v without its first entry equal to c.
RECURSIVE remove_first(_, _)
remove_first(v, c) ==
    IF v = <<>> THEN <<>>
    ELSE IF v[1] = c THEN Tail(v)
    ELSE <<v[1]>> \o remove_first(Tail(v), c)

\* Every rearrangement of v.
RECURSIVE Arrangements(_)
Arrangements(v) ==
    IF v = <<>>
    THEN {<<>>}
    ELSE UNION {{<<c>> \o t : t \in Arrangements(remove_first(v, c))} :
                  c \in {v[i] : i \in 1..Len(v)}}

\* sort_unstable_by_key: the outcomes of sorting v by sort_key. A short vector
\* is insertion-sorted, which leaves elements with equal keys in their order;
\* for a longer one the order of elements with equal keys is whatever the
\* library's unstable sort leaves, so every key-ordered rearrangement is an
\* outcome.
sort_unstable_by_key(v) ==
    IF Len(v) <= MAX_LEN_ALWAYS_INSERTION_SORT
    THEN {insertion_sort_shift_left(v)}
    ELSE {t \in Arrangements(v) : is_sorted_by_key(t)}

\* Component lists too long to be insertion-sorted, by one entry: an API
\* component, then Core, then tree fetchers.
LongLists ==
    {[i \in 1..(MAX_LEN_ALWAYS_INSERTION_SORT + 1) |->
         IF i = 1 THEN a ELSE IF i = 2 THEN "Core" ELSE "TreeFetcher"] :
       a \in {"HttpApi", "WsApi"}}

-----------------------------------------------------------------------------
Init ==
    /\ input \in ComponentLists(MaxLen) \cup LongLists
    /\ config \in ExternalNodeConfig
    /\ secrets_ok \in BOOLEAN
    /\ node_build_ok \in BOOLEAN
    /\ components = input
    /\ node = NewBuilder
    /\ pc = "base"
    /\ idx = 1
    /\ result = Running
    /\ service = NoService
    /\ node_build_calls = 0
    /\ first = NoRun

\* Variant: the pools layer is added after the two RPC client layers.
AddBaseLayers_pools_late ==
    /\ pc = "base"
    /\ node' = add_pools_layer(
                 add_query_eth_client_layer(
                   add_main_node_client_layer(
                     add_prometheus_exporter_layer(
                       add_healthcheck_layer(
                         add_sigint_handler_layer(node))))))
    /\ pc' = "preconditions"
    /\ UNCHANGED <<first, input, config, secrets_ok, node_build_ok, node_build_calls,
                 components, idx, result, service>>

\* build, "Add base layers".
AddBaseLayers ==
    /\ pc = "base"
    /\ node' = add_query_eth_client_layer(
                 add_main_node_client_layer(
                   add_pools_layer(
                     add_prometheus_exporter_layer(
                       add_healthcheck_layer(
                         add_sigint_handler_layer(node))))))
    /\ pc' = "preconditions"
    /\ UNCHANGED <<first, input, config, secrets_ok, node_build_ok, node_build_calls,
                 components, idx, result, service>>

\* build, "Add preconditions for all the components".
AddPreconditionLayers ==
    /\ pc = "preconditions"
    /\ node' = add_validate_chain_ids_layer(
                 add_l1_batch_commitment_mode_validation_layer(node))
    /\ pc' = "sort"
    /\ UNCHANGED <<first, input, config, secrets_ok, node_build_ok, node_build_calls,
                 components, idx, result, service>>

\* build, components.sort_unstable_by_key(..).
SortComponents ==
    /\ pc = "sort"
    /\ \E s \in sort_unstable_by_key(components) : components' = s
    /\ pc' = "loop"
    /\ idx' = 1
    /\ UNCHANGED <<first, input, config, secrets_ok, node_build_ok, node_build_calls,
                 node, result, service>>

InLoop(c) ==
    /\ pc = "loop"
    /\ idx <= Len(components)
    /\ components[idx] = c

Return(r) ==
    /\ pc' = "returned"
    /\ result' = r

NextComponent ==
    /\ idx' = idx + 1
    /\ UNCHANGED <<pc, result>>

\* Variant: the HttpApi arm is left empty instead of todo!().
ExpandHttpApi_noop ==
    /\ InLoop("HttpApi")
    /\ NextComponent
    /\ UNCHANGED <<first, input, config, secrets_ok, node_build_ok, node_build_calls,
                 components, node, service>>

\* Component::HttpApi => todo!()
ExpandHttpApi ==
    /\ InLoop("HttpApi")
    /\ Return(PanicTodo)
    /\ UNCHANGED <<first, input, config, secrets_ok, node_build_ok, node_build_calls,
                 components, node, idx, service>>

\* Component::WsApi => todo!()
ExpandWsApi ==
    /\ InLoop("WsApi")
    /\ Return(PanicTodo)
    /\ UNCHANGED <<first, input, config, secrets_ok, node_build_ok, node_build_calls,
                 components, node, idx, service>>

\* Variant: the Tree arm without its ensure!.
ExpandTree_unchecked ==
    /\ InLoop("Tree")
    /\ Return(PanicTodo)
    /\ UNCHANGED <<first, input, config, secrets_ok, node_build_ok, node_build_calls,
                 components, node, idx, service>>

\* Component::Tree => { ensure!(components.contains(Core)); todo!() }
ExpandTree ==
    /\ InLoop("Tree")
    /\ IF contains(components, "Core") THEN Return(PanicTodo) ELSE Return(ErrTree)
    /\ UNCHANGED <<first, input, config, secrets_ok, node_build_ok, node_build_calls,
                 components, node, idx, service>>

\* Component::TreeApi => { ensure!(components.contains(Tree)); }
ExpandTreeApi ==
    /\ InLoop("TreeApi")
    /\ IF contains(components, "Tree")
       THEN NextComponent
       ELSE Return(ErrTreeApi) /\ UNCHANGED idx
    /\ UNCHANGED <<first, input, config, secrets_ok, node_build_ok, node_build_calls,
                 components, node, service>>

\* Component::TreeFetcher => add_tree_data_fetcher_layer
ExpandTreeFetcher ==
    /\ InLoop("TreeFetcher")
    /\ node' = add_tree_data_fetcher_layer(node)
    /\ NextComponent
    /\ UNCHANGED <<first, input, config, secrets_ok, node_build_ok, node_build_calls,
                 components, service>>

\* Variant: the pruning layer is added ahead of the consensus layer.
core_arm_pruning_first(n) ==
    LET metrics == add_postgres_metrics_layer(n) IN
    IF ~config.l2_shared_bridge_addr
    THEN [node |-> metrics, end |-> PanicBridge]
    ELSE LET keeper == add_state_keeper_layer(metrics) IN
         IF ~secrets_ok
         THEN [node |-> keeper, end |-> ErrSecrets]
         ELSE [node |-> add_batch_status_updater_layer(
                          add_commitment_generator_layer(
                            add_consistency_checker_layer(
                              add_consensus_layer(
                                add_pruning_layer(keeper))))),
               end |-> "next"]

\* Variant: the consensus layer is added before the secrets are read.
core_arm_consensus_before_secrets(n) ==
    LET metrics == add_postgres_metrics_layer(n) IN
    IF ~config.l2_shared_bridge_addr
    THEN [node |-> metrics, end |-> PanicBridge]
    ELSE LET keeper == add_state_keeper_layer(metrics) IN
         IF ~secrets_ok
         THEN [node |-> add_consensus_layer(keeper), end |-> ErrSecrets]
         ELSE [node |-> add_batch_status_updater_layer(
                          add_commitment_generator_layer(
                            add_consistency_checker_layer(
                              add_pruning_layer(
                                add_consensus_layer(keeper))))),
               end |-> "next"]

\* The Component::Core arm on builder n: the layers it leaves and how it ends
\* ("next" when the loop goes on).
core_arm(n) ==
    LET metrics == add_postgres_metrics_layer(n) IN
    IF ~config.l2_shared_bridge_addr
    THEN [node |-> metrics, end |-> PanicBridge]
    ELSE LET keeper == add_state_keeper_layer(metrics) IN
         IF ~secrets_ok
         THEN [node |-> keeper, end |-> ErrSecrets]
         ELSE [node |-> add_batch_status_updater_layer(
                          add_commitment_generator_layer(
                            add_consistency_checker_layer(
                              add_pruning_layer(
                                add_consensus_layer(keeper))))),
               end |-> "next"]

\* Component::Core => metrics, then the main tasks.
ExpandCore ==
    /\ InLoop("Core")
    /\ LET arm == core_arm(node) IN
        /\ node' = arm.node
        /\ IF arm.end = "next"
           THEN NextComponent
           ELSE Return(arm.end) /\ UNCHANGED idx
    /\ UNCHANGED <<first, input, config, secrets_ok, node_build_ok, node_build_calls,
                 components, service>>

\* Variant: the builder is finalized from inside the loop, whatever is left
\* of the list.
Finalize_early ==
    /\ pc = "loop"
    /\ node_build_calls' = node_build_calls + 1
    /\ LET built == service_builder_build(node) IN
        IF built.ok
        THEN service' = built.service /\ Return(Ok)
        ELSE Return(ErrBuild) /\ UNCHANGED service
    /\ UNCHANGED <<first, input, config, secrets_ok, node_build_ok, components, node, idx>>

\* Ok(self.node.build()?): the Service when self.node.build() returns Ok, its
\* error otherwise.
Finalize ==
    /\ pc = "loop"
    /\ idx > Len(components)
    /\ node_build_calls' = node_build_calls + 1
    /\ LET built == service_builder_build(node) IN
        IF built.ok
        THEN service' = built.service /\ Return(Ok)
        ELSE Return(ErrBuild) /\ UNCHANGED service
    /\ UNCHANGED <<first, input, config, secrets_ok, node_build_ok, components, node, idx>>

Next ==
    \/ AddBaseLayers
    \/ AddPreconditionLayers
    \/ SortComponents
    \/ ExpandHttpApi
    \/ ExpandWsApi
    \/ ExpandTree
    \/ ExpandTreeApi
    \/ ExpandTreeFetcher
    \/ ExpandCore
    \/ Finalize

Spec == Init /\ [][Next]_vars

-----------------------------------------------------------------------------
\* A second, independent run: a new builder over the same configuration and
\* secret store, ExternalNodeBuilder::new(config).build(list), on the same
\* components in another order, or with one of them repeated.

\* Longest component list that is built twice.
MaxRerunLen == 2

\* What the finished run did, and how the list of the next run is made from
\* its list.
ThisRun(rerun) ==
    [done |-> TRUE, rerun |-> rerun, input |-> input, sorted |-> components,
     result |-> result, calls |-> node.calls, layers |-> node.layers,
     node_build_calls |-> node_build_calls]

\* v with the entries at i and i + 1 exchanged.
swap_adjacent(v, i) ==
    [k \in 1..Len(v) |-> IF k = i THEN v[i + 1] ELSE IF k = i + 1 THEN v[i] ELSE v[k]]

\* v with c put in as its entry j.
insert_at(v, j, c) == SubSeq(v, 1, j - 1) \o <<c>> \o SubSeq(v, j, Len(v))

StartRun(rerun, list) ==
    /\ pc = "returned"
    /\ ~first.done
    /\ first' = ThisRun(rerun)
    /\ input' = list
    /\ components' = list
    /\ node' = NewBuilder
    /\ pc' = "base"
    /\ idx' = 1
    /\ result' = Running
    /\ service' = NoService
    /\ node_build_calls' = 0
    /\ node_build_ok' \in BOOLEAN
    /\ UNCHANGED <<config, secrets_ok>>

\* build is called again with two neighbouring entries of the list exchanged
\* (every reordering of a list is a chain of such exchanges).
RerunReordered ==
    \E i \in 1..(Len(input) - 1) :
        /\ input[i] # input[i + 1]
        /\ StartRun("reordered", swap_adjacent(input, i))

\* build is called again with one more occurrence of a component of the list,
\* somewhere after that component.
RerunRepeated ==
    \E i \in 1..Len(input) : \E j \in (i + 1)..(Len(input) + 1) :
        StartRun("repeated", insert_at(input, j, input[i]))

NextTwoRuns ==
    \/ AddBaseLayers
    \/ AddPreconditionLayers
    \/ SortComponents
    \/ ExpandHttpApi
    \/ ExpandWsApi
    \/ ExpandTree
    \/ ExpandTreeApi
    \/ ExpandTreeFetcher
    \/ ExpandCore
    \/ Finalize
    \/ RerunReordered
    \/ RerunRepeated

InitTwoRuns == Init /\ Len(input) <= MaxRerunLen

SpecTwoRuns == InitTwoRuns /\ [][NextTwoRuns]_vars

-----------------------------------------------------------------------------
TypeOK ==
    /\ input \in ComponentLists(MaxLen) \cup LongLists
    /\ config \in ExternalNodeConfig
    /\ secrets_ok \in BOOLEAN
    /\ node_build_ok \in BOOLEAN
    /\ Len(components) = Len(input)
    /\ pc \in {"base", "preconditions", "sort", "loop", "returned"}
    /\ idx \in 1..(Len(input) + 1)
    /\ result \in {Running, Ok, ErrTree, ErrTreeApi, ErrSecrets, PanicTodo, PanicBridge,
                  ErrBuild}
    /\ (result = ErrBuild) => ~node_build_ok
    /\ node_build_calls \in 0..1
    /\ (result = Running) = (pc # "returned")
    /\ service.built = (result = Ok)

-----------------------------------------------------------------------------
\* Vocabulary of the properties.

ApiComponents == {"HttpApi", "WsApi"}

IsApi(c) == c \in ApiComponents

NotApi(c) == c \notin ApiComponents

Count(x, v) == Cardinality({i \in 1..Len(v) : v[i] = x})

IsPermutation(a, b) ==
    /\ Len(a) = Len(b)
    /\ \A c \in Component : Count(c, a) = Count(c, b)

IsPrefix(p, v) == Len(p) <= Len(v) /\ SubSeq(v, 1, Len(p)) = p

LayerSet(v) == {v[i] : i \in 1..Len(v)}

\* v without the later occurrences of its entries.
RECURSIVE FirstOccurrences(_)
FirstOccurrences(v) ==
    IF v = <<>>
    THEN <<>>
    ELSE LET before == FirstOccurrences(SubSeq(v, 1, Len(v) - 1)) IN
         IF contains(before, v[Len(v)]) THEN before ELSE Append(before, v[Len(v)])

Returned == pc = "returned"

Sorted == pc \in {"loop", "returned"}

\* The base layers followed by the precondition layers, as listed in build.
ExpectedPrefix ==
    <<"SigintHandlerLayer", "HealthCheckLayer">>
    \o (IF config.prometheus THEN <<"PrometheusExporterLayer">> ELSE <<>>)
    \o <<"PoolsLayer", "MainNodeClientLayer", "QueryEthClientLayer">>
    \o <<"L1BatchCommitmentModeValidationLayer", "ValidateChainIdsLayer">>

\* The layers of one complete Core expansion, as listed in the Core arm.
ExpectedCore ==
    <<"PostgresMetricsLayer", "OutputHandlerLayer", "ExternalIOLayer",
      "MainBatchExecutorLayer", "StateKeeperLayer", "ConsensusLayer">>
    \o (IF config.pruning_enabled THEN <<"PruningLayer">> ELSE <<>>)
    \o <<"ConsistencyCheckerLayer", "CommitmentGeneratorLayer",
         "BatchStatusUpdaterLayer">>

ExpectedTreeFetcher == <<"TreeDataFetcherLayer">>

ValidationError == result \in {ErrTree, ErrTreeApi}

\* The builder holds each layer it was handed once, in the order of the first
\* calls.
RegisteredOnce == node.layers = FirstOccurrences(node.calls)

-----------------------------------------------------------------------------
\* C1: whenever build ends in a dependency-validation error, no add_layer call
\* has been made on the service builder and it holds no layer.
C1_NoLayerBeforeValidationError ==
    ValidationError => node.calls = <<>> /\ node.layers = <<>>

\* C2: a list with Tree and without Core ends in the Tree-requires-Core
\* error, whatever else it holds and in whatever order, and no Service is
\* returned.
C2_TreeWithoutCoreRejected ==
    (Returned /\ contains(input, "Tree") /\ ~contains(input, "Core")) =>
        result = ErrTree /\ ~service.built

C2_Witness ==
    /\ Len(input) = 3
    /\ IsApi(input[1])
    /\ input[2] \in {"TreeApi", "TreeFetcher"}
    /\ input[3] = "Tree"
    /\ result = ErrTree

\* C3: a list with TreeApi and without Tree ends in the TreeApi-requires-Tree
\* error, whatever Core does before it, and no Service is returned.
C3_TreeApiWithoutTreeRejected ==
    (Returned /\ contains(input, "TreeApi") /\ ~contains(input, "Tree")) =>
        result = ErrTreeApi /\ ~service.built

\* C4: once sorted, the component vector is a rearrangement of the input in
\* which every HttpApi/WsApi entry comes after every other entry.
C4_ApiComponentsLast ==
    Sorted =>
        /\ IsPermutation(components, input)
        /\ \A i, j \in 1..Len(components) :
              (IsApi(components[i]) /\ NotApi(components[j])) => j < i

C4_Witness ==
    /\ Sorted
    /\ Len(input) = 3
    /\ IsApi(input[1]) /\ NotApi(input[2]) /\ IsApi(input[3])
    /\ NotApi(components[1])

\* C5: the sort is stable: for every input list the non-API components keep
\* their input order, and so do the API components.
C5_StableSort ==
    Sorted =>
        /\ SelectSeq(components, NotApi) = SelectSeq(input, NotApi)
        /\ SelectSeq(components, IsApi) = SelectSeq(input, IsApi)

\* Layers the distinct selected components add, by their fixed expansion sizes.
ExpansionSize(c) ==
    IF c = "Core" THEN Len(ExpectedCore)
    ELSE IF c = "TreeFetcher" THEN Len(ExpectedTreeFetcher)
    ELSE 0

RECURSIVE SumSizes(_)
SumSizes(S) ==
    IF S = {} THEN 0
    ELSE LET c == CHOOSE x \in S : TRUE IN ExpansionSize(c) + SumSizes(S \ {c})

\* C6: with Tree and Core both requested (no API component, bridge address
\* set, secrets readable, self.node.build() not failing) build returns a
\* Service that holds more than the layers of the other components, i.e.
\* Tree contributed layers.
C6_TreeWithCoreBuilds ==
    (/\ Returned
     /\ contains(input, "Tree") /\ contains(input, "Core")
     /\ \A i \in 1..Len(input) : NotApi(input[i])
     /\ config.l2_shared_bridge_addr /\ secrets_ok /\ node_build_ok) =>
        /\ result = Ok
        /\ service.built
        /\ Len(service.layers) > Len(ExpectedPrefix) + SumSizes(LayerSet(input))

CoreAndTreeFetcher ==
    input \in {<<"Core", "TreeFetcher">>, <<"TreeFetcher", "Core">>}

\* C7 (as stated): {Core, TreeFetcher} in either input order, secrets
\* readable: build succeeds with base, precondition, Core and tree-fetcher
\* layers in exactly that order (self.node.build() itself not failing).
C7_CoreThenTreeFetcher ==
    (Returned /\ CoreAndTreeFetcher /\ secrets_ok /\ node_build_ok) =>
        /\ result = Ok
        /\ service.layers = ExpectedPrefix \o ExpectedCore \o ExpectedTreeFetcher

\* C7 (amended): {Core, TreeFetcher} in either input order, secrets readable
\* and L2 shared bridge address set: both components are expanded and
\* self.node.build() is called once, on the base layers, the precondition
\* layers, and then the full Core expansion and the tree-fetcher layer in the
\* order of the input: for [Core, TreeFetcher] the tree-fetcher layer comes
\* right after the whole Core expansion, for [TreeFetcher, Core] right before
\* it. build succeeds with that sequence as the Service when
\* self.node.build() returns Ok, and returns its error and no Service
\* otherwise.
C7_CoreAndTreeFetcherBuilt ==
    (Returned /\ CoreAndTreeFetcher /\ secrets_ok /\ config.l2_shared_bridge_addr) =>
        /\ node_build_calls = 1
        /\ node.calls = node.layers
        /\ node.layers =
              ExpectedPrefix
              \o (IF input[1] = "Core"
                  THEN ExpectedCore \o ExpectedTreeFetcher
                  ELSE ExpectedTreeFetcher \o ExpectedCore)
        /\ IF node_build_ok
           THEN result = Ok /\ service = [built |-> TRUE, layers |-> node.layers]
           ELSE result = ErrBuild /\ service = NoService

C7_Witness ==
    /\ input = <<"TreeFetcher", "Core">>
    /\ secrets_ok
    /\ result = Ok
    /\ service.layers = ExpectedPrefix \o ExpectedTreeFetcher \o ExpectedCore

\* C8: whenever build returns a Service, the pruning layer is in it exactly
\* when pruning is enabled in the configuration.
C8_PruningIffEnabled ==
    result = Ok =>
        (contains(service.layers, "PruningLayer") <=> config.pruning_enabled)

\* C9: past the base-layer stage the Prometheus exporter layer has been
\* handed to the builder, and is in it, exactly once when the configuration
\* supplies a Prometheus config and not at all otherwise, whatever the
\* component list.
C9_PrometheusIffConfigured ==
    pc # "base" =>
        /\ Count("PrometheusExporterLayer", node.calls) =
              (IF config.prometheus THEN 1 ELSE 0)
        /\ Count("PrometheusExporterLayer", node.layers) =
              (IF config.prometheus THEN 1 ELSE 0)

C9_Witness ==
    /\ Returned
    /\ config.prometheus
    /\ Len(input) = 3
    /\ Count("PrometheusExporterLayer", node.layers) = 1

\* The run before this one was on the same list less one repeated entry.
AfterRepeat == first.done /\ first.rerun = "repeated" /\ Returned

\* C10: whenever build succeeds, no layer is in the Service twice and the
\* per-component layers number the sum of the expansion sizes of the distinct
\* selected components; and a further occurrence of a component of the list
\* is a no-op: build on the list with the repeated entry registers the same
\* layer sequence, reaches self.node.build() exactly if build on the list
\* without it did, and a Service it returns holds that sequence.
C10_DuplicatesAreNoOp ==
    /\ result = Ok =>
          /\ \A l \in LayerSet(service.layers) : Count(l, service.layers) = 1
          /\ Len(service.layers) = Len(ExpectedPrefix) + SumSizes(LayerSet(input))
    /\ AfterRepeat =>
          /\ node.layers = first.layers
          /\ node_build_calls = first.node_build_calls
          /\ (node_build_calls = 0 => result = first.result)
          /\ (result = Ok => service.layers = first.layers)

C10_Witness ==
    /\ AfterRepeat
    /\ first.input = <<"Core", "TreeFetcher">>
    /\ input = <<"Core", "Core", "TreeFetcher">>
    /\ first.result = Ok
    /\ result = Ok
    /\ Len(node.calls) = Len(first.calls) + Len(ExpectedCore)

-----------------------------------------------------------------------------
\* add_layer calls the loop makes for a list whose every entry is expanded to
\* the end.
LayersOfList(v) ==
    Count("Core", v) * Len(ExpectedCore) + Count("TreeFetcher", v)

\* self.node.build() was called, after the loop went through the whole list,
\* every entry expanded to the end, and build returned what it returned.
Finalized ==
    /\ node_build_calls = 1
    /\ pc = "returned"
    /\ idx = Len(components) + 1
    /\ Len(node.calls) = Len(ExpectedPrefix) + LayersOfList(components)
    /\ RegisteredOnce
    /\ IF node_build_ok
       THEN result = Ok /\ service = [built |-> TRUE, layers |-> node.layers]
       ELSE result = ErrBuild /\ service = NoService

\* The failures of a component arm: the two validation errors, the
\* secret-read error, the todo!() and the expect panics.
ComponentFailures == {ErrTree, ErrTreeApi, ErrSecrets, PanicTodo, PanicBridge}

\* Once self.node.build() has been called nothing is added to the builder and
\* it is not called again.
NothingAfterFinalization ==
    [][node_build_calls = 1 =>
         /\ node' = node
         /\ service' = service
         /\ node_build_calls' = node_build_calls]_vars

\* C12 (as stated): self.node.build() is called at most once, only when the
\* loop has gone through the whole list without an error, and nothing is
\* added to the builder afterwards; whenever build fails, self.node.build()
\* has not been called and no Service is returned.
C12_NeverFinalizedOnFailure ==
    /\ [](node_build_calls <= 1)
    /\ [](service.built => Finalized)
    /\ []((Returned /\ result # Ok) =>
             node_build_calls = 0 /\ service = NoService)
    /\ NothingAfterFinalization

\* C12 (amended): self.node.build() is called at most once, only when the
\* loop has gone through the whole list without an error, and nothing is
\* added to the builder and it is not finalized again afterwards; a build
\* that fails in a component arm (validation error, secret-read error,
\* todo!() or expect panic) has never called it; a build also fails when
\* self.node.build() itself returns an error, after its one call; and no
\* failing build returns a Service.
C12_FinalizedOnceAtTheEnd ==
    /\ [](node_build_calls <= 1)
    /\ [](node_build_calls = 1 => Finalized)
    /\ [](service.built => node_build_calls = 1 /\ result = Ok)
    /\ [](result \in ComponentFailures => node_build_calls = 0)
    /\ [](result = ErrBuild => node_build_calls = 1)
    /\ [](result # Ok => service = NoService)
    /\ NothingAfterFinalization

C12_Witness ==
    /\ result = ErrBuild
    /\ node_build_calls = 1
    /\ Len(input) = 3
    /\ contains(input, "Core")
    /\ contains(input, "TreeFetcher")

-----------------------------------------------------------------------------
\* Every base, precondition and Core layer, optional ones included, in the
\* order build lists them.
AllBaseAndCoreLayers ==
    <<"SigintHandlerLayer", "HealthCheckLayer", "PrometheusExporterLayer",
      "PoolsLayer", "MainNodeClientLayer", "QueryEthClientLayer",
      "L1BatchCommitmentModeValidationLayer", "ValidateChainIdsLayer",
      "PostgresMetricsLayer", "OutputHandlerLayer", "ExternalIOLayer",
      "MainBatchExecutorLayer", "StateKeeperLayer", "ConsensusLayer",
      "PruningLayer", "ConsistencyCheckerLayer", "CommitmentGeneratorLayer",
      "BatchStatusUpdaterLayer">>

\* An optional layer whose configuration is absent.
Skipped(layer) ==
    \/ layer = "PrometheusExporterLayer" /\ ~config.prometheus
    \/ layer = "PruningLayer" /\ ~config.pruning_enabled

NotSkipped(layer) == ~Skipped(layer)

\* C13 (as stated): for [Core] with readable secrets build succeeds under
\* every combination of telemetry and pruning settings, and the Service holds
\* every base and Core layer but the skipped optional ones, in the same order
\* (self.node.build() itself not failing).
C13_OptionalConfigNeverFails ==
    (Returned /\ input = <<"Core">> /\ secrets_ok /\ node_build_ok) =>
        /\ result = Ok
        /\ service.layers = SelectSeq(AllBaseAndCoreLayers, NotSkipped)

\* C13 (amended): for [Core] with readable secrets and the L2 shared bridge
\* address set, under every combination of telemetry and pruning settings
\* build reaches self.node.build() with every base and Core layer but the
\* skipped optional ones (no telemetry layer without a Prometheus config, no
\* pruning layer with pruning disabled), in the same order; it fails only if
\* self.node.build() does, and otherwise returns these layers as the Service.
C13_OptionalConfigSkipped ==
    (Returned /\ input = <<"Core">> /\ secrets_ok /\ config.l2_shared_bridge_addr) =>
        /\ node_build_calls = 1
        /\ node.calls = node.layers
        /\ node.layers = SelectSeq(AllBaseAndCoreLayers, NotSkipped)
        /\ IF node_build_ok
           THEN result = Ok /\ service = [built |-> TRUE, layers |-> node.layers]
           ELSE result = ErrBuild /\ service = NoService

C13_Witness ==
    /\ input = <<"Core">>
    /\ ~config.prometheus /\ ~config.pruning_enabled
    /\ result = Ok
    /\ Len(service.layers) = Len(AllBaseAndCoreLayers) - 2

\* The entries of the list that are not HttpApi/WsApi have all been expanded.
NonApiExpanded ==
    /\ \A j \in 1..Len(components) : j < idx <=> NotApi(components[j])
    /\ Len(node.calls) = Len(ExpectedPrefix) + LayersOfList(SelectSeq(input, NotApi))
    /\ RegisteredOnce

\* C14 (as stated): a list with HttpApi or WsApi never yields a Service; build
\* ends in a validation or secret-read error or in the todo!() placeholder,
\* and the placeholder is reached only after every non-API component has
\* been expanded.
C14_ApiListEndsInPlaceholder ==
    (Returned /\ \E i \in 1..Len(input) : IsApi(input[i])) =>
        /\ ~service.built
        /\ result \in {ErrTree, ErrTreeApi, ErrSecrets, PanicTodo}
        /\ (result = PanicTodo => NonApiExpanded)

\* C14 (amended): a list with HttpApi or WsApi never yields a Service; build
\* ends either in a failure raised while a non-API component is expanded (a
\* validation error, a secret-read error, the panic on an unset L2 shared
\* bridge address, or the Tree arm's own todo!()) or in the todo!() of the
\* HttpApi/WsApi arm, and that one is reached only after every non-API
\* component of the list has been expanded, all their layers added.
C14_ApiListNeverBuilds ==
    (Returned /\ \E i \in 1..Len(input) : IsApi(input[i])) =>
        /\ ~service.built
        /\ result # Ok
        /\ node_build_calls = 0
        /\ IF IsApi(components[idx])
           THEN result = PanicTodo /\ NonApiExpanded
           ELSE \/ result \in {ErrTree, ErrTreeApi, ErrSecrets, PanicBridge}
                \/ result = PanicTodo /\ components[idx] = "Tree"

C14_Witness ==
    /\ input = <<"HttpApi", "Core", "TreeFetcher">>
    /\ result = PanicTodo
    /\ IsApi(components[idx])
    /\ Len(node.calls) = Len(ExpectedPrefix) + Len(ExpectedCore) + 1

\* The layers the component arms add.
ComponentLayers ==
    {ExpectedCore[i] : i \in 1..Len(ExpectedCore)} \cup {"TreeDataFetcherLayer"}

\* v starts with the base and precondition layers, and every layer after them
\* is one a component arm adds.
BasePrefixFirst(v) ==
    /\ Len(v) >= Len(ExpectedPrefix)
    /\ \A i \in 1..Len(v) :
          IF i <= Len(ExpectedPrefix)
          THEN v[i] = ExpectedPrefix[i]
          ELSE v[i] \in ComponentLayers

\* C15: whatever the component list, the builder starts with sigint,
\* health check, Prometheus exporter (if configured), pools, main-node
\* client, L1 client, commitment-mode validation, chain-id validation, in
\* this order, and every layer a component arm adds comes after all of them.
C15_BasePrefixFirst ==
    /\ pc = "base" => node = NewBuilder
    /\ pc = "preconditions" =>
          /\ node.calls =
                <<"SigintHandlerLayer", "HealthCheckLayer">>
                \o (IF config.prometheus THEN <<"PrometheusExporterLayer">> ELSE <<>>)
                \o <<"PoolsLayer", "MainNodeClientLayer", "QueryEthClientLayer">>
          /\ node.layers = node.calls
    /\ pc \in {"sort", "loop", "returned"} =>
          BasePrefixFirst(node.calls) /\ BasePrefixFirst(node.layers)

C15_Witness ==
    /\ input = <<"TreeFetcher", "TreeApi">>
    /\ result = ErrTreeApi
    /\ config.prometheus
    /\ node.layers = ExpectedPrefix \o <<"TreeDataFetcherLayer">>

\* The add_layer calls a step made on the builder.
Added == SubSeq(node'.calls, Len(node.calls) + 1, Len(node'.calls))

\* C16: every expansion of Core hands its layers to the end of the builder, in
\* this order and with nothing in between: metrics, output handler, external
\* IO, main batch executor, state keeper, consensus, pruning (if enabled),
\* consistency checker, commitment generator, batch-status updater; an
\* expansion that fails stops after the metrics layer or after the four
\* pipeline layers, which are always added together; and the builder holds
\* them in that order.
C16_CoreExpansionOrder ==
    [][InLoop("Core") =>
          /\ IsPrefix(node.calls, node'.calls)
          /\ IsPrefix(Added,
                <<"PostgresMetricsLayer", "OutputHandlerLayer", "ExternalIOLayer",
                  "MainBatchExecutorLayer", "StateKeeperLayer", "ConsensusLayer">>
                \o (IF config.pruning_enabled THEN <<"PruningLayer">> ELSE <<>>)
                \o <<"ConsistencyCheckerLayer", "CommitmentGeneratorLayer",
                     "BatchStatusUpdaterLayer">>)
          /\ Len(Added) \in {1, 5, IF config.pruning_enabled THEN 10 ELSE 9}
          /\ (pc' = "loop" <=> Len(Added) >= 9)
          /\ IsPrefix(node.layers, node'.layers)
          /\ node'.layers = FirstOccurrences(node'.calls)]_vars

C16_Witness ==
    /\ pc = "loop"
    /\ idx = 3
    /\ config.pruning_enabled
    /\ node.layers = ExpectedPrefix \o ExpectedTreeFetcher \o ExpectedCore

LaterCoreLayers ==
    {"ConsensusLayer", "PruningLayer", "ConsistencyCheckerLayer",
     "CommitmentGeneratorLayer", "BatchStatusUpdaterLayer"}

\* C17: when Core is expanded and the consensus secrets cannot be read, build
\* ends with that error at once: the base, precondition, metrics and pipeline
\* layers are in the builder, the consensus layer and every layer after it
\* (of Core or of a later component) are not, and the builder is not
\* finalized.
C17_SecretsErrorIsFatal ==
    /\ (/\ Returned /\ ~secrets_ok /\ config.l2_shared_bridge_addr
        /\ contains(input, "Core")
        /\ \A i \in 1..Len(input) : input[i] \in {"Core", "TreeFetcher"})
           => result = ErrSecrets
    /\ result = ErrSecrets =>
          /\ ~secrets_ok
          /\ pc = "returned"
          /\ node_build_calls = 0
          /\ ~service.built
          /\ components[idx] = "Core"
          /\ \A i \in 1..Len(node.calls) : node.calls[i] \notin LaterCoreLayers
          /\ node.calls =
                ExpectedPrefix
                \o [i \in 1..Count("TreeFetcher", SubSeq(components, 1, idx - 1))
                      |-> "TreeDataFetcherLayer"]
                \o <<"PostgresMetricsLayer", "OutputHandlerLayer",
                     "ExternalIOLayer", "MainBatchExecutorLayer",
                     "StateKeeperLayer">>
          /\ RegisteredOnce

C17_Witness ==
    /\ result = ErrSecrets
    /\ components = <<"TreeFetcher", "Core", "TreeFetcher">>
    /\ Count("TreeDataFetcherLayer", node.layers) = 1

\* C18: every Service build returns holds the layers of exactly one Core
\* expansion: none comes from a list without Core, none holds them twice.
C18_CoreExactlyOnce ==
    result = Ok =>
        /\ Count("Core", input) = 1
        /\ Count("PostgresMetricsLayer", service.layers) = 1

\* self.node.build() did the same in the two runs: it was not reached in
\* either, or returned Ok in both, or Err in both.
SameFinalization ==
    (result = ErrBuild) = (first.result = ErrBuild)

\* C19: two builds of the same components in different orders, under the same
\* configuration and secret store (and with self.node.build() doing the same
\* in both), end the same way (Ok, or the same failure) with the same set of
\* layers registered.
C19_OrderIndependent ==
    (first.done /\ first.rerun = "reordered" /\ Returned /\ SameFinalization) =>
        /\ result = first.result
        /\ LayerSet(node.layers) = LayerSet(first.layers)

====
